---- MODULE Spec2Model ----
(***************************************************************************)
(* Model of the wipsim ticket servicing simulation (five-policy variant).   *)
(* A run picks a horizon `days`, then for every day d adds the day's new    *)
(* tickets to each of the five simulations and, except on the last day,     *)
(* burns down one day of capacity in each simulation.                       *)
(***************************************************************************)
EXTENDS Integers, Sequences, FiniteSets

\* ---------------------------------------------------------------- bounds
MaxDays == 3
MaxPerDay == 2
MaxTickets == 4
Efforts == {1, 5, 10}

Min2(a, b) == IF a < b THEN a ELSE b

\* ------------------------------------------------------- program constants
workhoursday == 8
hourswork == 2
cnt == 5

\* heap:    the ticket objects, a ticket pointer is an index into heap
\* simptr:  simptr[p] is the slice sim.tickets of simulation p (pointers)
\* created: pointers to the tickets made by createTicketsForDay, in order
\* stats:   stats[p] is what statsLeadTime returned for simulation p
VARIABLES days, d, heap, simptr, created, pc, panicked, burndays, stats

vars == <<days, d, heap, simptr, created, pc, panicked, burndays, stats>>

Policies == 0..(cnt - 1)

\* the tickets of every simulation, by value: simset[p][i] is *simset[p].tickets[i]
simset == [p \in Policies |-> [i \in 1..Len(simptr[p]) |-> heap[simptr[p][i]]]]

\* ticket i of policy p: *simset[p].tickets[i]
Tk(p, i) == heap[simptr[p][i]]

\* ------------------------------------------------------------------ ticket
NewTicket(startday, effort, totaldays) ==
    [startday |-> startday, leadtime |-> 0, endday |-> 0, effort |-> effort,
     remaining |-> [i \in 0..(totaldays - 1) |->
                       IF i = startday THEN effort ELSE 0]]

Clone(t) ==
    [startday |-> t.startday, leadtime |-> 0, endday |-> 0,
     effort |-> t.effort, remaining |-> t.remaining]

\* ---- variants of burndownhours with a plausible slip each
\* the hours spent are not taken off hoursleft
burndownhours_NoCharge(t, day, hoursleft, hours) ==
    LET d1 == day + 1
        workremain == t.remaining[day]
        h1 == IF workremain < hours THEN workremain ELSE hours
        h2 == IF hoursleft < h1 THEN hoursleft ELSE h1
        work == workremain > 0 /\ hoursleft > 0
        wr == IF work THEN workremain - h2 ELSE workremain
        t1 == IF workremain > 0
              THEN [t EXCEPT !.endday = day, !.leadtime = d1 - t.startday]
              ELSE t
    IN  [t |-> IF d1 \in DOMAIN t.remaining
               THEN [t1 EXCEPT !.remaining[d1] = wr] ELSE t1,
         hoursleft |-> hoursleft,
         panic |-> d1 \notin DOMAIN t.remaining]

\* the hours offered are not limited to the work that remains
burndownhours_NoClamp(t, day, hoursleft, hours) ==
    LET d1 == day + 1
        workremain == t.remaining[day]
        h2 == IF hoursleft < hours THEN hoursleft ELSE hours
        work == workremain > 0 /\ hoursleft > 0
        wr == IF work THEN workremain - h2 ELSE workremain
        hl == IF work THEN hoursleft - h2 ELSE hoursleft
        t1 == IF workremain > 0
              THEN [t EXCEPT !.endday = day, !.leadtime = d1 - t.startday]
              ELSE t
    IN  [t |-> IF d1 \in DOMAIN t.remaining
               THEN [t1 EXCEPT !.remaining[d1] = wr] ELSE t1,
         hoursleft |-> hl,
         panic |-> d1 \notin DOMAIN t.remaining]

\* endday and leadtime are set only inside the hoursleft > 0 branch
burndownhours_WorkedOnly(t, day, hoursleft, hours) ==
    LET d1 == day + 1
        workremain == t.remaining[day]
        h1 == IF workremain < hours THEN workremain ELSE hours
        h2 == IF hoursleft < h1 THEN hoursleft ELSE h1
        work == workremain > 0 /\ hoursleft > 0
        wr == IF work THEN workremain - h2 ELSE workremain
        hl == IF work THEN hoursleft - h2 ELSE hoursleft
        t1 == IF work
              THEN [t EXCEPT !.endday = day, !.leadtime = d1 - t.startday]
              ELSE t
    IN  [t |-> IF d1 \in DOMAIN t.remaining
               THEN [t1 EXCEPT !.remaining[d1] = wr] ELSE t1,
         hoursleft |-> hl,
         panic |-> d1 \notin DOMAIN t.remaining]

\* endday and leadtime are set outside the workremain > 0 branch
burndownhours_AlwaysStamp(t, day, hoursleft, hours) ==
    LET d1 == day + 1
        workremain == t.remaining[day]
        h1 == IF workremain < hours THEN workremain ELSE hours
        h2 == IF hoursleft < h1 THEN hoursleft ELSE h1
        work == workremain > 0 /\ hoursleft > 0
        wr == IF work THEN workremain - h2 ELSE workremain
        hl == IF work THEN hoursleft - h2 ELSE hoursleft
        t1 == [t EXCEPT !.endday = day, !.leadtime = d1 - t.startday]
    IN  [t |-> IF d1 \in DOMAIN t.remaining
               THEN [t1 EXCEPT !.remaining[d1] = wr] ELSE t1,
         hoursleft |-> hl,
         panic |-> d1 \notin DOMAIN t.remaining]

\* leadtime is day - startday instead of day + 1 - startday
burndownhours_LeadOffByOne(t, day, hoursleft, hours) ==
    LET d1 == day + 1
        workremain == t.remaining[day]
        h1 == IF workremain < hours THEN workremain ELSE hours
        h2 == IF hoursleft < h1 THEN hoursleft ELSE h1
        work == workremain > 0 /\ hoursleft > 0
        wr == IF work THEN workremain - h2 ELSE workremain
        hl == IF work THEN hoursleft - h2 ELSE hoursleft
        t1 == IF workremain > 0
              THEN [t EXCEPT !.endday = day, !.leadtime = day - t.startday]
              ELSE t
    IN  [t |-> IF d1 \in DOMAIN t.remaining
               THEN [t1 EXCEPT !.remaining[d1] = wr] ELSE t1,
         hoursleft |-> hl,
         panic |-> d1 \notin DOMAIN t.remaining]

\* endday and leadtime are set only on the day the ticket is finished
burndownhours_StampOnFinish(t, day, hoursleft, hours) ==
    LET d1 == day + 1
        workremain == t.remaining[day]
        h1 == IF workremain < hours THEN workremain ELSE hours
        h2 == IF hoursleft < h1 THEN hoursleft ELSE h1
        work == workremain > 0 /\ hoursleft > 0
        wr == IF work THEN workremain - h2 ELSE workremain
        hl == IF work THEN hoursleft - h2 ELSE hoursleft
        t1 == IF workremain > 0 /\ wr = 0
              THEN [t EXCEPT !.endday = day, !.leadtime = d1 - t.startday]
              ELSE t
    IN  [t |-> IF d1 \in DOMAIN t.remaining
               THEN [t1 EXCEPT !.remaining[d1] = wr] ELSE t1,
         hoursleft |-> hl,
         panic |-> d1 \notin DOMAIN t.remaining]

\* burn down one ticket for one day; returns the ticket and updated hoursleft;
\* panic records a write to remaining[day+1] outside the array (a run-time panic)
burndownhours(t, day, hoursleft, hours) ==
    LET d1 == day + 1
        workremain == t.remaining[day]
        h1 == IF workremain < hours THEN workremain ELSE hours
        h2 == IF hoursleft < h1 THEN hoursleft ELSE h1
        work == workremain > 0 /\ hoursleft > 0
        wr == IF work THEN workremain - h2 ELSE workremain
        hl == IF work THEN hoursleft - h2 ELSE hoursleft
        t1 == IF workremain > 0
              THEN [t EXCEPT !.endday = day, !.leadtime = d1 - t.startday]
              ELSE t
    IN  [t |-> IF d1 \in DOMAIN t.remaining
               THEN [t1 EXCEPT !.remaining[d1] = wr] ELSE t1,
         hoursleft |-> hl,
         panic |-> d1 \notin DOMAIN t.remaining]

\* ------------------------------------------------------------- simulation
\* for _, t := range tickets { hoursleft = t.burndownhours(...) } over the
\* ticket pointers in order, mutating the tickets in heap h; capped: offer
\* hourswork, else offer all hours left
RECURSIVE burnLoop(_, _, _, _, _, _, _)
burnLoop(h, order, k, day, hoursleft, capped, panic) ==
    IF k > Len(order) THEN [heap |-> h, hoursleft |-> hoursleft, panic |-> panic]
    ELSE LET i == order[k]
             r == burndownhours(h[i], day, hoursleft,
                                IF capped THEN hourswork ELSE hoursleft)
         IN  burnLoop([h EXCEPT ![i] = r.t], order, k + 1, day,
                      r.hoursleft, capped, panic \/ r.panic)

\* a new slice holding the same ticket pointers
copyTickets(sim) == [i \in 1..Len(sim) |-> sim[i]]

\* variant: the pointers are appended, not clones of the tickets
addTickets_NoClone(h, sim, ts) == [heap |-> h, tickets |-> sim \o ts]

\* append a clone of every ticket of ts to the simulation's slice
addTickets(h, sim, ts) ==
    [heap |-> h \o [i \in 1..Len(ts) |-> Clone(h[ts[i]])],
     tickets |-> sim \o [i \in 1..Len(ts) |-> Len(h) + i]]

\* variant: the result of s.addTickets is not stored back for the last simulation
RECURSIVE simsetAddTickets_Dropped(_, _, _, _)
simsetAddTickets_Dropped(h, sims, ts, p) ==
    IF p >= cnt - 1 THEN [heap |-> h, sims |-> sims]
    ELSE LET r == addTickets(h, sims[p], ts)
         IN  simsetAddTickets_Dropped(r.heap, [sims EXCEPT ![p] = r.tickets], ts, p + 1)

\* for i, s := range simset { simset[i] = s.addTickets(ts) }
RECURSIVE simsetAddTickets(_, _, _, _)
simsetAddTickets(h, sims, ts, p) ==
    IF p >= cnt THEN [heap |-> h, sims |-> sims]
    ELSE LET r == addTickets(h, sims[p], ts)
         IN  simsetAddTickets(r.heap, [sims EXCEPT ![p] = r.tickets], ts, p + 1)

\* the new tickets of a day, to be allocated in this order
createTicketsForDay(day, totaldays, efforts) ==
    [i \in 1..Len(efforts) |-> NewTicket(day, efforts[i], totaldays)]

\* --------------------------------------------------------------- sorting
\* variant: the comparison is reversed (longest first)
lessSjf_Longest(ts, day, i, j) == ts[i].remaining[day] > ts[j].remaining[day]

lessSjf(ts, day, i, j) == ts[i].remaining[day] < ts[j].remaining[day]

lessOsjf(ts, day, i, j) ==
    IF ts[i].startday < ts[j].startday THEN TRUE
    ELSE ts[i].remaining[day] < ts[j].remaining[day]

\* variant: the age lacks the + 1
ageAwsjf_NoPlusOne(t, day) == day - t.startday

\* the weight divisor of a ticket: wi := day + 1 - ti.startday
ageAwsjf(t, day) == day + 1 - t.startday

\* variant: the remaining work is not divided by the age
lessAwsjf_NoAge(ts, day, i, j) == ts[i].remaining[day] < ts[j].remaining[day]

lessAwsjf(ts, day, i, j) ==
    LET wi == ageAwsjf(ts[i], day)
        wj == ageAwsjf(ts[j], day)
    IN  (ts[i].remaining[day] \div wi) < (ts[j].remaining[day] \div wj)

less(p, ts, day, i, j) ==
    CASE p = 2 -> lessSjf(ts, day, i, j)
      [] p = 3 -> lessOsjf(ts, day, i, j)
      [] OTHER -> lessAwsjf(ts, day, i, j)

Swap(a, i, j) == [a EXCEPT ![i] = a[j], ![j] = a[i]]

\* sort.Slice on a slice of at most 12 elements is an insertion sort:
\* for i := 1; i < n; i++ { for j := i; j > 0 && less(j, j-1); j-- { swap } }
RECURSIVE sortInner(_, _, _, _, _)
sortInner(p, ts, day, a, j) ==
    IF j > 1 /\ less(p, ts, day, a[j], a[j - 1])
    THEN sortInner(p, ts, day, Swap(a, j, j - 1), j - 1)
    ELSE a

RECURSIVE sortSlice(_, _, _, _, _)
sortSlice(p, ts, day, a, i) ==
    IF i > Len(a) THEN a
    ELSE sortSlice(p, ts, day, sortInner(p, ts, day, a, i), i + 1)

\* --------------------------------------------------------------- policies
\* a policy returns the heap after the day, the simulation's slice after the
\* day (population) and whether the run panicked
\* variant: the first pass offers all hours left instead of hourswork
burndownMaxWip_Uncapped(h, sim, day) ==
    LET first == burnLoop(h, sim, 1, day, workhoursday, FALSE, FALSE)
        second == burnLoop(first.heap, sim, 1, day, first.hoursleft, FALSE,
                           first.panic)
    IN  IF first.hoursleft > 0
        THEN [heap |-> second.heap, population |-> sim, panic |-> second.panic]
        ELSE [heap |-> first.heap, population |-> sim, panic |-> first.panic]

burndownMaxWip(h, sim, day) ==
    LET first == burnLoop(h, sim, 1, day, workhoursday, TRUE, FALSE)
        second == burnLoop(first.heap, sim, 1, day, first.hoursleft, FALSE,
                           first.panic)
    IN  IF first.hoursleft > 0
        THEN [heap |-> second.heap, population |-> sim, panic |-> second.panic]
        ELSE [heap |-> first.heap, population |-> sim, panic |-> first.panic]

\* variant: every ticket is offered hourswork instead of all hours left
burndownOldestFirst_Capped(h, sim, day) ==
    LET r == burnLoop(h, sim, 1, day, workhoursday, TRUE, FALSE)
    IN  [heap |-> r.heap, population |-> sim, panic |-> r.panic]

\* variant: the tickets are served from the newest to the oldest
burndownOldestFirst_Reversed(h, sim, day) ==
    LET rev == [i \in 1..Len(sim) |-> sim[Len(sim) + 1 - i]]
        r == burnLoop(h, rev, 1, day, workhoursday, FALSE, FALSE)
    IN  [heap |-> r.heap, population |-> sim, panic |-> r.panic]

burndownOldestFirst(h, sim, day) ==
    LET r == burnLoop(h, sim, 1, day, workhoursday, FALSE, FALSE)
    IN  [heap |-> r.heap, population |-> sim, panic |-> r.panic]

\* variant: the simulation's own slice is sorted, not a copy
burndownSjf_InPlace(h, sim, day) ==
    LET tscp == sortSlice(2, h, day, sim, 2)
        r == burnLoop(h, tscp, 1, day, workhoursday, FALSE, FALSE)
    IN  [heap |-> r.heap, population |-> tscp, panic |-> r.panic]

burndownSjf(h, sim, day) ==
    LET tscp == sortSlice(2, h, day, copyTickets(sim), 2)
        r == burnLoop(h, tscp, 1, day, workhoursday, FALSE, FALSE)
    IN  [heap |-> r.heap, population |-> sim, panic |-> r.panic]

burndownOsjf(h, sim, day) ==
    LET tscp == sortSlice(3, h, day, copyTickets(sim), 2)
        r == burnLoop(h, tscp, 1, day, workhoursday, FALSE, FALSE)
    IN  [heap |-> r.heap, population |-> sim, panic |-> r.panic]

\* variant: every ticket is offered hourswork instead of all hours left
burndownAwsjf_Capped(h, sim, day) ==
    LET divzero == Len(sim) >= 2 /\
                   \E i \in 1..Len(sim) : ageAwsjf(h[sim[i]], day) = 0
        tscp == sortSlice(4, h, day, copyTickets(sim), 2)
        r == burnLoop(h, tscp, 1, day, workhoursday, TRUE, FALSE)
    IN  IF divzero THEN [heap |-> h, population |-> sim, panic |-> TRUE]
        ELSE [heap |-> r.heap, population |-> sim, panic |-> r.panic]

\* the comparator divides by the age: a ticket of age 0 in a slice of two or
\* more tickets is an integer division by zero, a run-time panic
burndownAwsjf(h, sim, day) ==
    LET divzero == Len(sim) >= 2 /\
                   \E i \in 1..Len(sim) : ageAwsjf(h[sim[i]], day) = 0
        tscp == sortSlice(4, h, day, copyTickets(sim), 2)
        r == burnLoop(h, tscp, 1, day, workhoursday, FALSE, FALSE)
    IN  IF divzero THEN [heap |-> h, population |-> sim, panic |-> TRUE]
        ELSE [heap |-> r.heap, population |-> sim, panic |-> r.panic]

burndownaday(p, h, sim, day) ==
    CASE p = 0 -> burndownMaxWip(h, sim, day)
      [] p = 1 -> burndownOldestFirst(h, sim, day)
      [] p = 2 -> burndownSjf(h, sim, day)
      [] p = 3 -> burndownOsjf(h, sim, day)
      [] OTHER -> burndownAwsjf(h, sim, day)

\* for _, s := range simset { s.burndownaday(&s, day) }
RECURSIVE simsetBurndown(_, _, _, _, _)
simsetBurndown(h, sims, day, p, panic) ==
    IF p >= cnt THEN [heap |-> h, sims |-> sims, panic |-> panic]
    ELSE LET r == burndownaday(p, h, sims[p], day)
         IN  simsetBurndown(r.heap, [sims EXCEPT ![p] = r.population], day,
                            p + 1, panic \/ r.panic)

\* sim.tickets = make([]*ticket, 0, size): an empty slice; a negative capacity
\* is a run-time panic (makeslice: cap out of range)
NewSimulation(size) == [tickets |-> <<>>, panic |-> size < 0]

\* sz := days * 3 / 2, the division truncating toward zero, then the five
\* simulations of capacity sz; after a panic no simulation set exists and the
\* empty slices stand for it
NewSimulationset(totaldays) ==
    LET sz == IF totaldays >= 0 THEN (totaldays * 3) \div 2
              ELSE 0 - ((0 - totaldays * 3) \div 2)
    IN  [simset |-> [p \in Policies |-> NewSimulation(sz).tickets],
         panic |-> \E p \in Policies : NewSimulation(sz).panic]

\* -------------------------------------------------------------- statistics
\* float64 values are kept exact: a quotient of two integers, or NaN
NaN == [nan |-> TRUE, num |-> 0, den |-> 0]

\* a / b in float64 for integers a, b >= 0; the only zero divisor is an empty
\* population, whose sums are 0: 0.0 / 0.0 is NaN
FloatDiv(a, b) == IF b = 0 THEN NaN ELSE [nan |-> FALSE, num |-> a, den |-> b]

RECURSIVE SumLeadTime(_, _, _)
SumLeadTime(ts, k, squared) ==
    IF k = 0 THEN 0
    ELSE SumLeadTime(ts, k - 1, squared) +
         (IF squared THEN ts[k].leadtime * ts[k].leadtime ELSE ts[k].leadtime)

\* mean, the square of stdev (stdev is its math.Sqrt, NaN for NaN) and
\* whether mean + stdev is NaN
statsLeadTime(ts) ==
    LET sum == SumLeadTime(ts, Len(ts), FALSE)
        sumSq == SumLeadTime(ts, Len(ts), TRUE)
        l == Len(ts)
        meanSq == FloatDiv(sumSq, l)
        mean == FloatDiv(sum, l)
        radicand == IF meanSq.nan \/ mean.nan THEN NaN
                    ELSE [nan |-> FALSE, num |-> sumSq * l - sum * sum,
                          den |-> l * l]
    IN  [mean |-> mean, stdevsq |-> radicand,
         meanstdevnan |-> mean.nan \/ radicand.nan]

\* ------------------------------------------------------------------ driver
\* the day's arrivals: between 0 and MaxPerDay tickets with efforts from
\* Efforts, at most MaxTickets tickets over the whole run
Arrivals(population) ==
    UNION {[1..n -> Efforts] : n \in 0..Min2(MaxPerDay, MaxTickets - population)}

\* variant: the last day is not excepted
BurndownGuard_AllDays(day, totaldays) == day < totaldays

\* "burndown on all days except last day"
BurndownGuard(day, totaldays) == day < totaldays - 1

\* days := simdays(): any integer given on the command line
Horizons == (0 - 2)..MaxDays

\* the state when main enters its loop, or the panic of NewSimulationset
Init ==
    /\ days \in Horizons
    /\ d = 0
    /\ heap = <<>>
    /\ simptr = NewSimulationset(days).simset
    /\ created = <<>>
    /\ pc = (IF NewSimulationset(days).panic THEN "panic" ELSE "add")
    /\ panicked = NewSimulationset(days).panic
    /\ burndays = {}
    /\ stats = <<>>

\* createTicketsForDay and simset.addTickets for day d
AddTickets ==
    /\ pc = "add"
    /\ d < days
    /\ \E efforts \in Arrivals(Len(created)) :
          LET tickets == [i \in 1..Len(efforts) |-> Len(heap) + i]
              r == simsetAddTickets(heap \o createTicketsForDay(d, days, efforts),
                                    simptr, tickets, 0)
          IN  /\ heap' = r.heap
              /\ simptr' = r.sims
              /\ created' = created \o tickets
    /\ pc' = "burn"
    /\ UNCHANGED <<days, d, panicked, burndays, stats>>

\* simset.burndown(d) on every day but the last, then d++
Burndown ==
    /\ pc = "burn"
    /\ BurndownGuard(d, days)
    /\ LET r == simsetBurndown(heap, simptr, d, 0, FALSE)
       IN  /\ heap' = r.heap
           /\ simptr' = r.sims
           /\ panicked' = r.panic
           /\ pc' = IF r.panic THEN "panic" ELSE "add"
    /\ burndays' = burndays \cup {d}
    /\ d' = d + 1
    /\ UNCHANGED <<days, created, stats>>

\* the last day: no burn-down, d++
SkipBurndown ==
    /\ pc = "burn"
    /\ ~BurndownGuard(d, days)
    /\ d' = d + 1
    /\ pc' = "add"
    /\ UNCHANGED <<days, heap, simptr, created, panicked, burndays, stats>>

\* the loop ends; printing the simulation set takes the statistics of each
Finish ==
    /\ pc = "add"
    /\ ~(d < days)
    /\ stats' = [p \in Policies |-> statsLeadTime(simset[p])]
    /\ pc' = "done"
    /\ UNCHANGED <<days, d, heap, simptr, created, panicked, burndays>>

Next == AddTickets \/ Burndown \/ SkipBurndown \/ Finish

Spec == Init /\ [][Next]_vars

\* ------------------------------------------------------ derived quantities
Max(S) == CHOOSE m \in S : \A n \in S : n <= m

TicketIds(p) == 1..Len(simptr[p])

\* hours burned on ticket t by the burn-down of day x
Burned(t, x) == t.remaining[x] - t.remaining[x + 1]

\* the tickets of policy p that were in the population at the burn-down of day x
PresentIds(p, x) == {i \in TicketIds(p) : Tk(p, i).startday <= x}

\* ticket t was in the population at the burn-down of day x
Present(t, x) == t.startday <= x

\* hours burned on day x over the first k tickets of policy p
RECURSIVE SumBurned(_, _, _)
SumBurned(p, x, k) ==
    IF k = 0 THEN 0
    ELSE SumBurned(p, x, k - 1) +
         (IF Present(Tk(p, k), x) THEN Burned(Tk(p, k), x) ELSE 0)

\* work open at the burn-down of day x over the first k tickets of policy p
RECURSIVE SumRemaining(_, _, _)
SumRemaining(p, x, k) ==
    IF k = 0 THEN 0
    ELSE SumRemaining(p, x, k - 1) +
         (IF Present(Tk(p, k), x) THEN Tk(p, k).remaining[x] ELSE 0)

\* total hours burned / total work open in policy p on day x
DayBurned(p, x) == SumBurned(p, x, Len(simptr[p]))
DayOpen(p, x) == SumRemaining(p, x, Len(simptr[p]))

Greedy == {1, 2, 3, 4}

\* ------------------------------------------------------------------ claims

\* C1: in every policy and on every burn-down day, the hours burned over all
\* tickets of the population (remaining[d] - remaining[d+1]) are at most
\* workhoursday = 8.
C1_CapacityNotExceeded ==
    \A p \in Policies : \A x \in burndays : DayBurned(p, x) <= workhoursday

\* C1 witness: every policy has burned a full day of 8 hours.
C1_Witness ==
    \A p \in Policies : \E x \in burndays : DayBurned(p, x) = workhoursday

\* C2: Oldest-first, Shortest-first, Oldest-then-shortest and Age-weighted
\* burn min(8, open work) on every burn-down day: exactly 8 hours, or every
\* ticket is at 0 the next day.
C2_GreedyConsumesCapacity ==
    \A p \in Greedy : \A x \in burndays :
        LET burned == DayBurned(p, x)
        IN  /\ burned = Min2(workhoursday, DayOpen(p, x))
            /\ \/ burned = workhoursday
               \/ \A i \in PresentIds(p, x) : Tk(p, i).remaining[x + 1] = 0

\* C2 witness: each greedy policy has had a day with more work than capacity
\* and a day with some, but less, work than capacity.
C2_Witness ==
    \A p \in Greedy :
        /\ \E x \in burndays : DayOpen(p, x) > workhoursday
        /\ \E x \in burndays : DayOpen(p, x) > 0 /\ DayOpen(p, x) < workhoursday

\* C3: Equal-working burns min(8, open work) on every burn-down day: the
\* second pass adds the left-over capacity to the first-pass work.
C3_EqualWorkingConsumesCapacity ==
    \A x \in burndays :
        DayBurned(0, x) = Min2(workhoursday, DayOpen(0, x))

\* C4: Oldest-then-shortest: on every burn-down day no ticket receives hours
\* while a ticket with a strictly earlier startday is left with work.
C4_OsjfOlderFirst ==
    \A x \in burndays : \A i, j \in PresentIds(3, x) :
        (/\ Burned(Tk(3, j), x) > 0
         /\ Tk(3, i).startday < Tk(3, j).startday)
        => Tk(3, i).remaining[x + 1] = 0

\* the run of the example: A (start 0, effort 5) and B (start 0, effort 10)
\* are the whole population, the horizon is at least 3 days, the run is over
SjfExampleRun ==
    /\ pc = "done" /\ ~panicked /\ days >= 3
    /\ Len(simptr[2]) = 2
    /\ Tk(2, 1).startday = 0 /\ Tk(2, 1).effort = 5
    /\ Tk(2, 2).startday = 0 /\ Tk(2, 2).effort = 10

\* C5: Shortest-first: on every burn-down day, if a ticket receives hours then
\* every open ticket with strictly less remaining work is finished that day;
\* with A (start 0, effort 5) and B (start 0, effort 10) A ends with
\* leadtime 1, B with leadtime 2 and 7 hours remaining after day 0.
C5_SjfShortestFirst ==
    /\ \A x \in burndays : \A i, j \in PresentIds(2, x) :
          (/\ Burned(Tk(2, j), x) > 0
           /\ 0 < Tk(2, i).remaining[x]
           /\ Tk(2, i).remaining[x] < Tk(2, j).remaining[x])
          => Tk(2, i).remaining[x + 1] = 0
    /\ SjfExampleRun =>
          /\ Tk(2, 1).leadtime = 1
          /\ Tk(2, 2).leadtime = 2
          /\ Tk(2, 2).remaining[1] = 7

\* C5 witness: the example run has ended, and the longer ticket was served
\* after the shorter one on day 0.
C5_Witness ==
    /\ SjfExampleRun
    /\ Burned(Tk(2, 2), 0) > 0
    /\ Tk(2, 1).remaining[1] = 0

\* C6: every ticket's remaining effort is never negative, starts at effort on
\* startday, does not increase from one burn-down day to the next, and stays
\* 0 once it is 0.
C6_RemainingMonotone ==
    \A p \in Policies : \A i \in TicketIds(p) :
        LET t == Tk(p, i)
        IN  /\ t.remaining[t.startday] = t.effort
            /\ \A x \in DOMAIN t.remaining : t.remaining[x] >= 0
            /\ \A x \in burndays : x >= t.startday =>
                  /\ t.remaining[x + 1] <= t.remaining[x]
                  /\ t.remaining[x] = 0 => t.remaining[x + 1] = 0

\* C6 witness: in every policy a ticket reached 0 on a burn-down day and was
\* carried forward at 0 by the burn-down of the next day.
C6_Witness ==
    \A p \in Policies : \E i \in TicketIds(p) :
        LET t == Tk(p, i)
        IN  \E x \in burndays :
               /\ x + 1 \in burndays
               /\ t.startday <= x
               /\ t.remaining[x] > 0
               /\ t.remaining[x + 1] = 0

\* the burn-down days on which ticket t was open / on which its remaining
\* effort strictly decreased
OpenDays(t) == {x \in burndays : t.startday <= x /\ t.remaining[x] > 0}

WorkedDays(t) == {x \in burndays : t.startday <= x /\ Burned(t, x) > 0}

\* C7 as stated: endday and leadtime change only on a day on which the ticket
\* received hours, so endday is the last day on which remaining strictly
\* decreased and a ticket that never received hours still has the endday and
\* leadtime it was created with.  Stated for the single-pass policies, where
\* the primitive touches each ticket once a day.
C7_UpdatedOnlyWhenWorked ==
    \A p \in Greedy : \A i \in TicketIds(p) :
        LET t == Tk(p, i)
        IN  IF WorkedDays(t) = {}
            THEN t.endday = 0 /\ t.leadtime = 0
            ELSE /\ t.endday = Max(WorkedDays(t))
                 /\ t.leadtime = Max(WorkedDays(t)) + 1 - t.startday

\* C7 amended: endday and leadtime are updated on every burn-down day on which
\* the ticket is open (remaining[day] > 0), whether or not it receives hours:
\* endday is the last burn-down day that began with remaining > 0, leadtime
\* is endday + 1 - startday, and a ticket not yet burnt down has the endday 0
\* and leadtime 0 it was created with.
C7_UpdatedWhileOpen ==
    \A p \in Policies : \A i \in TicketIds(p) :
        LET t == Tk(p, i)
        IN  IF OpenDays(t) = {}
            THEN t.endday = 0 /\ t.leadtime = 0
            ELSE /\ t.endday = Max(OpenDays(t))
                 /\ t.leadtime = Max(OpenDays(t)) + 1 - t.startday

\* C7 witness: under a greedy policy a ticket was open on a burn-down day after
\* its arrival day, received no hours that day, and has that day as endday.
C7_Witness ==
    \E p \in Greedy : \E i \in TicketIds(p) : \E x \in burndays :
        LET t == Tk(p, i)
        IN  /\ t.startday < x
            /\ t.remaining[x] > 0
            /\ Burned(t, x) = 0
            /\ t.endday = x
            /\ t.leadtime = x + 1 - t.startday

\* ticket t reached zero remaining effort by the burn-down of some day
Finished(t) ==
    \E c \in burndays : t.startday <= c /\ t.remaining[c + 1] = 0

\* C8: once a ticket's remaining effort has reached zero after a burn-down,
\* no later step changes its endday or leadtime.
C8_FrozenAfterZero ==
    [][\A p \in Policies : \A i \in TicketIds(p) :
          Finished(Tk(p, i)) =>
             /\ heap'[simptr'[p][i]].endday = Tk(p, i).endday
             /\ heap'[simptr'[p][i]].leadtime = Tk(p, i).leadtime]_vars

\* C8 witness: under Equal-working a ticket reached zero on day c, and on day
\* c + 1 the second pass ran (another ticket was burnt by more than 2 hours)
\* while the finished ticket kept endday c.
C8_Witness ==
    \E i, j \in TicketIds(0) : \E c \in burndays :
        LET t == Tk(0, i)
        IN  /\ c + 1 \in burndays
            /\ t.startday <= c
            /\ t.remaining[c] > 0
            /\ t.remaining[c + 1] = 0
            /\ Tk(0, j).startday <= c + 1
            /\ Burned(Tk(0, j), c + 1) > hourswork
            /\ t.endday = c
            /\ t.leadtime = c + 1 - t.startday

\* C9: a ticket whose remaining effort dropped to zero on day c has endday c
\* and leadtime c + 1 - startday; and a ticket whose leadtime is behind
\* x + 1 - startday after the burn-down of day x has remaining[x] = 0.
C9_LeadTimeAtCompletion ==
    \A p \in Policies : \A i \in TicketIds(p) :
        LET t == Tk(p, i)
        IN  \A x \in burndays : t.startday <= x =>
               /\ (t.remaining[x] > 0 /\ t.remaining[x + 1] = 0) =>
                     (t.endday = x /\ t.leadtime = x + 1 - t.startday)
               /\ t.leadtime < x + 1 - t.startday => t.remaining[x] = 0

\* C9 witness: the run is over, and in every policy a ticket dropped to zero
\* on a day c that was followed by another burn-down day, and its leadtime
\* stayed at c + 1 - startday.
C9_Witness ==
    /\ pc = "done"
    /\ \A p \in Policies : \E i \in TicketIds(p) : \E c \in burndays :
          LET t == Tk(p, i)
          IN  /\ t.startday <= c
              /\ c + 1 \in burndays
              /\ t.remaining[c] > 0
              /\ t.remaining[c + 1] = 0
              /\ t.leadtime = c + 1 - t.startday
              /\ t.leadtime < c + 2 - t.startday

\* C10: burn-down never runs for the final day: every burn-down day is at most
\* days - 2, no index outside 0..days-1 of a remaining array is touched, and
\* every ticket's startday is inside the array.  No burn-down panics: the
\* only panic of a run is NewSimulationset's for a negative horizon.
C10_NoBurndownOnLastDay ==
    /\ panicked => (days < 0 /\ burndays = {})
    /\ \A x \in burndays : x <= days - 2
    /\ \A p \in Policies : \A i \in TicketIds(p) :
          /\ DOMAIN Tk(p, i).remaining = 0..(days - 1)
          /\ Tk(p, i).startday \in 0..(days - 1)

\* C10 witness: the run is over with a ticket that arrived on the final day,
\* and burn-down ran on every day before the final one.
C10_Witness ==
    /\ pc = "done"
    /\ days >= 2
    /\ burndays = 0..(days - 2)
    /\ \E i \in TicketIds(0) : Tk(0, i).startday = days - 1

\* C10 second case: a one-day horizon ends with tickets and no burn-down.
C10_WitnessOneDay ==
    /\ pc = "done" /\ days = 1 /\ burndays = {} /\ Len(simptr[0]) > 0

\* the set of ticket pointers held by a slice
Pointers(sl) == {sl[i] : i \in 1..Len(sl)}

\* the step is a burn-down of day d
BurndownStep == pc = "burn" /\ burndays' # burndays

\* C11: no ticket is aliased across policies: the simulations and the slice of
\* created tickets hold pairwise different ticket pointers, and the burn-down
\* of a day leaves every simulation's tickets as that simulation's own policy
\* alone makes them, and leaves the created (cloned-from) tickets unchanged.
C11_NoAliasing ==
    [][/\ \A p, q \in Policies :
             p # q => Pointers(simptr[p]) \cap Pointers(simptr[q]) = {}
       /\ \A p \in Policies : Pointers(simptr[p]) \cap Pointers(created) = {}
       /\ BurndownStep =>
             /\ \A q \in Policies : \A i \in 1..Len(simptr[q]) :
                   heap'[simptr[q][i]] =
                      burndownaday(q, heap, simptr[q], d).heap[simptr[q][i]]
             /\ \A k \in 1..Len(created) : heap'[created[k]] = heap[created[k]]
      ]_vars

\* C11 witness: after a burn-down the same arrival has different remaining
\* effort under Equal-working and under Oldest-first, and the ticket it was
\* cloned from is still as created.
C11_Witness ==
    \E k \in 1..Len(created) :
        /\ burndays # {}
        /\ Tk(0, k).remaining # Tk(1, k).remaining
        /\ Tk(1, k).remaining # heap[created[k]].remaining
        /\ heap[created[k]] =
              NewTicket(heap[created[k]].startday, heap[created[k]].effort, days)

\* C12: every simulation holds exactly one ticket per arrival so far, the
\* ticket at index k has the startday and effort of the k-th arrival in all
\* five simulations, and no step removes a ticket or changes its startday or
\* effort.
C12_SameArrivalsKept ==
    [][/\ \A p \in Policies :
             /\ Len(simptr[p]) = Len(created)
             /\ Len(simptr'[p]) = Len(created')
             /\ \A k \in 1..Len(created) :
                   /\ Tk(p, k).startday = heap[created[k]].startday
                   /\ Tk(p, k).effort = heap[created[k]].effort
                   /\ k \in 1..Len(simptr'[p])
                   /\ heap'[simptr'[p][k]].startday = Tk(p, k).startday
                   /\ heap'[simptr'[p][k]].effort = Tk(p, k).effort
             /\ \A k \in 1..Len(created') :
                   /\ heap'[simptr'[p][k]].startday = heap'[created'[k]].startday
                   /\ heap'[simptr'[p][k]].effort = heap'[created'[k]].effort
       /\ \A k \in 1..Len(created) :
             /\ heap[created[k]].startday \in 0..d
             /\ heap[created[k]].effort \in Efforts
      ]_vars

\* C12 witness: the run is over with arrivals on two different days, burnt
\* down at least once, and every simulation holds them all.
C12_Witness ==
    /\ pc = "done"
    /\ burndays # {}
    /\ Len(created) >= 3
    /\ heap[created[1]].startday # heap[created[Len(created)]].startday
    /\ \A p \in Policies : Len(simptr[p]) = Len(created)

\* the hours the first pass of Equal-working offers on day x to the first k
\* tickets: hourswork each, or what is left of the ticket
RECURSIVE FirstPassOffer(_, _)
FirstPassOffer(x, k) ==
    IF k = 0 THEN 0
    ELSE FirstPassOffer(x, k - 1) +
         (IF Present(Tk(0, k), x)
          THEN Min2(hourswork, Tk(0, k).remaining[x]) ELSE 0)

\* C13: in Equal-working, on a day whose first pass uses up all of
\* workhoursday (the offers of hourswork per ticket add up to 8 or more), no
\* ticket's remaining decreases by more than hourswork = 2; a decrease above 2
\* happens only on a day whose first pass left capacity.
C13_FirstPassCappedAtHourswork ==
    \A x \in burndays :
        FirstPassOffer(x, Len(simptr[0])) >= workhoursday =>
            \A i \in TicketIds(0) :
                Present(Tk(0, i), x) => Burned(Tk(0, i), x) <= hourswork

C13_Witness ==
    \E x, y \in burndays :
        /\ FirstPassOffer(x, Len(simptr[0])) >= workhoursday
        /\ \E i \in TicketIds(0) :
               Present(Tk(0, i), x) /\ Burned(Tk(0, i), x) = hourswork
        /\ FirstPassOffer(y, Len(simptr[0])) < workhoursday
        /\ \E i \in TicketIds(0) :
               Present(Tk(0, i), y) /\ Burned(Tk(0, i), y) > hourswork

\* C14 as stated: the statistics of a simulation that holds no ticket are a
\* no-data outcome, not a triple obtained by dividing by a population size of
\* zero: no component of the result is NaN.
C14_EmptyPopulationNoDivision ==
    pc = "done" =>
        \A p \in Policies :
            Len(simptr[p]) = 0 =>
                /\ ~stats[p].mean.nan
                /\ ~stats[p].stdevsq.nan
                /\ ~stats[p].meanstdevnan

\* the tickets of policy p that are open at the burn-down of day x
OpenIds(p, x) ==
    {i \in TicketIds(p) : Present(Tk(p, i), x) /\ Tk(p, i).remaining[x] > 0}

\* C16: Oldest-first serves the population in its stored order with the full
\* capacity on offer: the earliest open ticket gets min(8, remaining), and a
\* ticket gets hours only when every ticket before it is finished that day.
C16_OldestFirstInOrder ==
    \A x \in burndays :
        /\ \A i, j \in TicketIds(1) :
               (i < j /\ Present(Tk(1, j), x) /\ Burned(Tk(1, j), x) > 0)
                   => Tk(1, i).remaining[x + 1] = 0
        /\ \A i \in OpenIds(1, x) :
               (\A j \in OpenIds(1, x) : i <= j)
                   => Burned(Tk(1, i), x) =
                          Min2(workhoursday, Tk(1, i).remaining[x])

C16_Witness ==
    \E x \in burndays : \E i, j \in OpenIds(1, x) :
        /\ i < j
        /\ Burned(Tk(1, i), x) = Tk(1, i).remaining[x]
        /\ Burned(Tk(1, j), x) > 0
        /\ Tk(1, j).remaining[x + 1] > 0

\* the AWSJF key of ticket t on day x
Quotient(t, x) == t.remaining[x] \div (x + 1 - t.startday)

\* C17: AWSJF serves tickets in ascending remaining[d] div (d + 1 - startday):
\* a ticket gets hours only when every open ticket of strictly smaller
\* quotient is finished that day.
C17_AwsjfAscendingQuotient ==
    \A x \in burndays : \A i, j \in OpenIds(4, x) :
        (Quotient(Tk(4, i), x) < Quotient(Tk(4, j), x) /\
         Burned(Tk(4, j), x) > 0)
            => Tk(4, i).remaining[x + 1] = 0

\* an older ticket with more work left and a smaller quotient went first
C17_Witness ==
    \E x \in burndays : \E i, j \in OpenIds(4, x) :
        /\ Tk(4, i).remaining[x] > Tk(4, j).remaining[x]
        /\ Quotient(Tk(4, i), x) < Quotient(Tk(4, j), x)
        /\ Tk(4, i).remaining[x + 1] = 0
        /\ Burned(Tk(4, j), x) > 0
        /\ Tk(4, j).remaining[x + 1] > 0

\* C18: at every burn-down every ticket of the population has startday <= d,
\* so the AWSJF divisor is at least 1 and the comparator never divides by
\* zero: no run panics but in NewSimulationset, for a negative horizon,
\* before any ticket exists.
C18_AwsjfDivisorPositive ==
    /\ panicked => (days < 0 /\ Len(simptr[4]) = 0)
    /\ pc = "burn" =>
           \A p \in Policies : \A i \in TicketIds(p) :
               Tk(p, i).startday <= d /\ ageAwsjf(Tk(p, i), d) >= 1

\* AWSJF has sorted a slice holding a ticket of the day and an older one
C18_Witness ==
    /\ ~panicked
    /\ \E x \in burndays : \E i, j \in TicketIds(4) :
           /\ Tk(4, i).startday = x
           /\ Tk(4, j).startday < x
           /\ ageAwsjf(Tk(4, i), x) = 1

\* C19: SJF, OSJF and AWSJF sort a copy: the simulation's own population
\* stays in insertion order (the clones in the order they were allocated),
\* with startday non-decreasing along it.
C19_PopulationInArrivalOrder ==
    \A p \in {2, 3, 4} : \A i, j \in TicketIds(p) :
        i < j => /\ simptr[p][i] < simptr[p][j]
                 /\ Tk(p, i).startday <= Tk(p, j).startday

\* SJF has served a later ticket before an earlier one
C19_Witness ==
    \E x \in burndays : \E i, j \in OpenIds(2, x) :
        /\ i < j
        /\ Tk(2, j).remaining[x] < Tk(2, i).remaining[x]
        /\ Burned(Tk(2, j), x) > 0
        /\ Burned(Tk(2, i), x) = 0

\* C20 as stated: after an Equal-working burn-down each of the first four
\* open tickets in arrival order has lost at least min(2, remaining[d]).
C20_FirstPassWorkKept ==
    \A x \in burndays : \A i \in OpenIds(0, x) :
        Cardinality({j \in OpenIds(0, x) : j < i}) < 4 =>
            Tk(0, i).remaining[x + 1] <=
                Tk(0, i).remaining[x] - Min2(hourswork, Tk(0, i).remaining[x])

\* C21 as stated: at the end of a run every ticket of every population, the
\* arrivals of the final day included, has leadtime >= 1 and
\* startday <= endday <= days - 1.
C21_EveryTicketStamped ==
    pc = "done" =>
        \A p \in Policies : \A i \in TicketIds(p) :
            /\ Tk(p, i).leadtime >= 1
            /\ Tk(p, i).startday <= Tk(p, i).endday
            /\ Tk(p, i).endday <= days - 1

\* C21 amended: at the end of a run every ticket that arrived before the
\* final day has leadtime >= 1 and startday <= endday <= days - 1; a ticket
\* that arrived on the final day was never burned down and still has the
\* leadtime 0 and endday 0 it was created with.
C21_StampedUnlessFinalDay ==
    pc = "done" =>
        \A p \in Policies : \A i \in TicketIds(p) :
            IF Tk(p, i).startday < days - 1
            THEN /\ Tk(p, i).leadtime >= 1
                 /\ Tk(p, i).startday <= Tk(p, i).endday
                 /\ Tk(p, i).endday <= days - 1
            ELSE Tk(p, i).leadtime = 0 /\ Tk(p, i).endday = 0

\* the run is over with an unfinished ticket of an earlier day and a ticket
\* of the final day in the same population
C21_Witness ==
    /\ pc = "done"
    /\ \E p \in Policies : \E i, j \in TicketIds(p) :
           /\ Tk(p, i).startday < days - 1
           /\ Tk(p, i).remaining[days - 1] > 0
           /\ Tk(p, i).leadtime >= 1
           /\ Tk(p, j).startday = days - 1
           /\ Tk(p, j).leadtime = 0

\* the remaining effort at day x summed over the first k tickets of policy p
RECURSIVE TotalRemaining(_, _, _)
TotalRemaining(p, x, k) ==
    IF k = 0 THEN 0
    ELSE TotalRemaining(p, x, k - 1) + Tk(p, k).remaining[x]

\* C22: on every day the remaining effort summed over all tickets is the
\* same in Oldest-first, SJF, OSJF and AWSJF, and the total of Equal-working
\* is never smaller than theirs.
C22_GreedyTotalsAgree ==
    \A x \in 0..(days - 1) :
        LET oldest == TotalRemaining(1, x, Len(simptr[1]))
        IN  /\ \A p \in Greedy : TotalRemaining(p, x, Len(simptr[p])) = oldest
            /\ TotalRemaining(0, x, Len(simptr[0])) >= oldest

\* after a burn-down two greedy policies hold different tickets open with
\* the same total left, and Equal-working has strictly more left
C22_Witness ==
    \E x \in burndays :
        /\ TotalRemaining(1, x + 1, Len(simptr[1])) > 0
        /\ \E i \in TicketIds(1) :
               Tk(1, i).remaining[x + 1] # Tk(2, i).remaining[x + 1]
        /\ TotalRemaining(0, x + 1, Len(simptr[0])) >
               TotalRemaining(1, x + 1, Len(simptr[1]))

====
